---- MODULE Spec2Model ----
(***************************************************************************)
(* remoji: a command-line tool that strips emoji from markdown files.      *)
(* Model of src/main.rs: the transformer remove_emojis, the single-file    *)
(* mode process_file, and the recursive mode process_directory with        *)
(* process_file_in_place, over an abstract filesystem.                     *)
(*                                                                         *)
(* A text is a sequence of Unicode code points (integers).  A path is a    *)
(* sequence of one-character strings with "/" between its components.     *)
(***************************************************************************)
EXTENDS Integers, Sequences, FiniteSets, TLC

VARIABLES
    args,        \* the parsed Cli (main.rs:15-39)
    fs,          \* the filesystem: existing path -> [kind, data]
    pc,          \* position of the single thread of control
    stack,       \* WalkDir's open directories: entries not yet yielded
    entry,       \* the loop variable `entry` of process_directory
    content,     \* local `content` of process_file / process_file_in_place
    cleaned,     \* local `cleaned_content`
    processed,   \* local counter of process_directory
    errors,      \* local counter of process_directory
    stdout,      \* the set of lines printed with println!/print!
    stderr,      \* the set of lines printed with eprintln! or by main's Err return
    exit,        \* the process's outcome: "running", "ok", "err"
    pre,         \* the filesystem as it was when the invocation began
    outcome,     \* per entry handed to process_file_in_place: which match arm ran
    failures,    \* paths on which an I/O operation of this invocation failed
    writes,      \* paths handed to a successful or attempted fs::write
    runs,        \* number of invocations begun so far
    prev,        \* paths the previous invocation rewrote in place with success
    faults,      \* I/O faults the environment has injected so far
    text,        \* transformer harness: the input text T
    once,        \* transformer harness: remove_emojis(T)
    twice,       \* transformer harness: remove_emojis(remove_emojis(T))
    tpc          \* transformer harness: position

vars == <<args, fs, pc, stack, entry, content, cleaned, processed, errors,
          stdout, stderr, exit, pre, outcome, failures, writes, runs, prev,
          faults, text, once, twice, tpc>>

fsvars == <<args, fs, pc, stack, entry, content, cleaned, processed, errors,
            stdout, stderr, exit, pre, outcome, failures, writes, runs, prev,
            faults>>

tvars == <<text, once, twice, tpc>>

(***************************************************************************)
(* Bounds of the model.                                                    *)
(***************************************************************************)
MaxLen == 3      \* longest text given to the transformer harness
MaxRuns == 2     \* invocations of the tool in one behaviour
MaxFaults == 2   \* I/O operations the environment makes fail in one behaviour

(***************************************************************************)
(* The transformer.                                                        *)
(***************************************************************************)

\* Code points used in texts: 'a', ' ', '#', U+2764 HEAVY BLACK HEART,
\* U+FE0F VARIATION SELECTOR-16, U+231A WATCH, U+1F30D, U+1F44B WAVING HAND.
Alphabet == {97, 35, 10084, 65039, 8986, 128075}

\* The Unicode property Emoji_Presentation (emoji-data.txt), the ranges that
\* cover the code points up to U+1F4FC; '#', U+2764 and U+FE0F are Emoji or
\* Emoji_Component but not Emoji_Presentation.
EmojiPresentation(c) ==
    \/ c \in 8986..8987      \* 231A..231B
    \/ c \in 9193..9196      \* 23E9..23EC
    \/ c \in 9725..9726      \* 25FD..25FE
    \/ c \in 9748..9749      \* 2614..2615
    \/ c \in 127744..127776  \* 1F300..1F320
    \/ c \in 128066..128252  \* 1F442..1F4FC

\* str::len counts UTF-8 bytes.
Utf8Len(c) == IF c < 128 THEN 1 ELSE IF c < 2048 THEN 2 ELSE IF c < 65536 THEN 3 ELSE 4

RECURSIVE ByteLen(_)
ByteLen(T) == IF T = <<>> THEN 0 ELSE Utf8Len(Head(T)) + ByteLen(Tail(T))

\* Regex::find_at: the start of the leftmost match at or after position i,
\* 0 when there is none.  The pattern matches exactly one code point.
FindAt(T, i) ==
    IF \E j \in i..Len(T) : EmojiPresentation(T[j])
    THEN CHOOSE j \in i..Len(T) :
            /\ EmojiPresentation(T[j])
            /\ \A k \in i..(j - 1) : ~EmojiPresentation(T[k])
    ELSE 0

\* Regex::replace_all(content, ""): copy the text between successive
\* non-overlapping matches, then the rest after the last match.
RECURSIVE ReplaceAll(_, _, _)
ReplaceAll(T, last, new) ==
    LET m == FindAt(T, last) IN
    IF m = 0
    THEN new \o SubSeq(T, last, Len(T))
    ELSE ReplaceAll(T, m + 1, new \o SubSeq(T, last, m - 1))

\* A slip: the search resumes one code point too far after a match, so a
\* match that directly follows another is kept.
RECURSIVE ReplaceAllSkipping(_, _, _)
ReplaceAllSkipping(T, last, new) ==
    LET m == FindAt(T, last) IN
    IF m = 0
    THEN new \o SubSeq(T, last, Len(T))
    ELSE IF m = Len(T)
         THEN new \o SubSeq(T, last, m - 1)
         ELSE ReplaceAllSkipping(T, m + 2, new \o SubSeq(T, last, m - 1) \o <<T[m + 1]>>)

RemoveSkipping(T) == ReplaceAllSkipping(T, 1, <<>>)

\* A slip: Regex::replace, which replaces the first match only.
ReplaceFirst(T) ==
    LET m == FindAt(T, 1) IN
    IF m = 0 THEN T ELSE SubSeq(T, 1, m - 1) \o SubSeq(T, m + 1, Len(T))

remove_emojis(T) == ReplaceAll(T, 1, <<>>)

(***************************************************************************)
(* Option<T>: None is the empty sequence, Some(v) is <<v>>.                *)
(***************************************************************************)
None == <<>>
Some(v) == <<v>>

(***************************************************************************)
(* std::path.                                                              *)
(***************************************************************************)

\* The last position of character ch in s, 0 when it does not occur.
LastIndexOf(s, ch) ==
    IF \E i \in 1..Len(s) : s[i] = ch
    THEN CHOOSE i \in 1..Len(s) : s[i] = ch /\ \A j \in (i + 1)..Len(s) : s[j] # ch
    ELSE 0

\* Path::file_name: the last component.
file_name(p) == SubSeq(p, LastIndexOf(p, "/") + 1, Len(p))

\* Path::parent.
parent(p) == SubSeq(p, 1, LastIndexOf(p, "/") - 1)

\* Path::extension: the part of the file name after its last dot; None when
\* the name has no dot, or when its only dot is its first character.
extension(p) ==
    LET name == file_name(p)
        dot  == LastIndexOf(name, ".")
    IN  IF dot <= 1 THEN None ELSE Some(SubSeq(name, dot + 1, Len(name)))

\* Path::file_stem: the file name without its extension.
file_stem(p) ==
    LET name == file_name(p)
        dot  == LastIndexOf(name, ".")
    IN  IF dot <= 1 THEN name ELSE SubSeq(name, 1, dot - 1)

\* Path::with_extension: the file name is cut back to its stem, then "." and
\* the new extension are appended.
with_extension(p, ext) ==
    SubSeq(p, 1, LastIndexOf(p, "/")) \o file_stem(p) \o <<".">> \o ext

\* The names used below.
MD == <<"m", "d">>
MD_BAK == <<"m", "d", ".", "b", "a", "k">>

\* Path::is_dir on filesystem f.
is_dir(f, p) == p \in DOMAIN f /\ f[p].kind = "dir"

is_file(f, p) == p \in DOMAIN f /\ f[p].kind = "file"

\* The entries of directory d (fs::read_dir).
read_dir(f, d) == {p \in DOMAIN f : Len(p) > Len(d) /\ parent(p) = d}

(***************************************************************************)
(* The filesystem the tool runs on.                                        *)
(***************************************************************************)
Root == <<"r">>
A_MD == <<"r", "/", "a", ".", "m", "d">>
B_MD_UPPER == <<"r", "/", "b", ".", "M", "D">>
SUB == <<"r", "/", "s">>
C_MD == <<"r", "/", "s", "/", "c", ".", "m", "d">>
D_MD == <<"r", "/", "d", ".", "m", "d">>
O_TXT == <<"r", "/", "o", ".", "t", "x", "t">>

File(data) == [kind |-> "file", data |-> data]
Dir == [kind |-> "dir", data |-> <<>>]

\* Contents of r/a.md before the first invocation: "a#" and U+1F44B 'a' U+231A.
SampleTexts == {<<97, 35>>, <<128075, 97, 8986>>}

\* r/ a.md  b.MD  s/ c.md  and, in some trees, a directory named d.md.
Tree(ta, withD) ==
    LET base == [p \in {Root, A_MD, B_MD_UPPER, SUB, C_MD} |->
                    CASE p = A_MD -> File(ta)
                      [] p = C_MD -> File(<<8986, 10084, 65039>>)
                      [] p = B_MD_UPPER -> File(<<128075>>)
                      [] OTHER -> Dir]
    IN  IF withD THEN (D_MD :> Dir) @@ base ELSE base

\* The directories whose listing may be refused (permissions).
Unlistable == {SUB}

\* The command lines considered (Cli::parse).
\* --output is given in single-file mode and --backup in recursive mode, the
\* modes that read them.
ArgsSet ==
    {a \in [path : {Root, A_MD, D_MD},
            recursive : BOOLEAN,
            output : {None, Some(O_TXT), Some(A_MD)},
            verbose : BOOLEAN,
            dry_run : BOOLEAN,
            backup : BOOLEAN] :
        IF a.recursive THEN a.output = None ELSE ~a.backup}

\* One printed line: the message k, the paths p and q, the text t and the
\* numbers a and b it is formatted from (unused fields are empty or 0).
Msg(k) == [k |-> k, p |-> <<>>, q |-> <<>>, t |-> <<>>, a |-> 0, b |-> 0]
MsgP(k, p) == [Msg(k) EXCEPT !.p = p]

\* An I/O operation that failed.
Failure(op, p) == [op |-> op, path |-> p]

(***************************************************************************)
(* Decisions of the code, one operator each.                               *)
(***************************************************************************)

\* A slip: the dry-run test placed after the backup step.
AfterTransformBackupFirst(a) ==
    IF a.backup THEN "backup" ELSE IF a.dry_run THEN "report" ELSE "write"

\* process_file_in_place after the transform: report only (dry run), back
\* up first, or write at once.
AfterTransform(a) ==
    IF a.dry_run THEN "report" ELSE IF a.backup THEN "backup" ELSE "write"

\* A slip: Path::exists in place of Path::is_dir.
RecursiveTargetExists(a, f) == a.path \in DOMAIN f

\* main's test before process_directory: args.path.is_dir().
RecursiveTargetOk(a, f) == is_dir(f, a.path)

\* A slip: the result of fs::copy dropped instead of propagated with `?`.
AfterCopyIgnored(r) == "write"

\* After fs::copy: `?` returns the error, otherwise the write follows.
AfterCopy(r) == IF r = "ok" THEN "write" ELSE "error"

\* A slip: the alternate output ignored, the input overwritten.
WriteTargetInput(a) == a.path

\* process_file's write destination: the path held by args.output.
WriteTarget(a) == a.output[1]

\* A slip: the Err arm forgets its increment.
ErrCountForgot(n) == n

\* The Err arm: errors += 1.
ErrCount(n) == n + 1

\* The Ok arm: processed += 1.
OkCount(n) == n + 1

\* A slip: process_directory fails when some file errored.
DirResultStrict(e) == IF e > 0 THEN "err" ELSE "ok"

\* process_directory's result after the summary: Ok(()).
DirResult(e) == "ok"

\* The outcomes of creating-and-filling a file (fs::write, fs::copy's
\* destination): "ok"; "refused", before the file is touched; or "partial",
\* failed after the file was created or truncated and before any data
\* reached it.
Filled(r, data) == IF r = "ok" THEN data ELSE <<>>

\* An operation that could have succeeded fails only by a fault the
\* environment injects, of which a behaviour holds at most MaxFaults.
Injected(failed) ==
    IF failed THEN faults < MaxFaults /\ faults' = faults + 1 ELSE faults' = faults

\* Whether path p can be opened for writing on f at all.
CanCreate(f, p) == ~is_dir(f, p) /\ is_dir(f, parent(p))

(***************************************************************************)
(* WalkDir: a stack of open directory listings.                            *)
(***************************************************************************)
Listing(d, left, err) == [dir |-> d, left |-> left, err |-> err]

\* IntoIter::next pops the listings that are exhausted.
RECURSIVE Live(_)
Live(st) ==
    IF st = <<>> THEN st
    ELSE LET top == st[Len(st)] IN
         IF top.left = {} /\ ~top.err THEN Live(SubSeq(st, 1, Len(st) - 1)) ELSE st

SetTop(st, top) == [st EXCEPT ![Len(st)] = top]

(***************************************************************************)
(* One invocation of the tool.                                             *)
(***************************************************************************)

\* The state a process starts in, on filesystem f with command line a.
Start(a, f) ==
    /\ args = a
    /\ fs = f
    /\ pre = f
    /\ pc = "main"
    /\ stack = <<>>
    /\ entry = <<>>
    /\ content = <<>>
    /\ cleaned = <<>>
    /\ processed = 0
    /\ errors = 0
    /\ stdout = {}
    /\ stderr = {}
    /\ exit = "running"
    /\ outcome = <<>>
    /\ failures = {}
    /\ writes = {}

\* main: dispatch on --recursive; process_directory's prologue.
Main ==
    /\ pc = "main"
    /\ IF args.recursive
       THEN IF ~RecursiveTargetOk(args, fs)
            THEN /\ stderr' = stderr \cup {Msg("Error: Path must be a directory when using --recursive")}
                 /\ exit' = "err"
                 /\ pc' = "exit"
                 /\ UNCHANGED <<stack, stdout, processed, errors>>
            ELSE /\ processed' = 0
                 /\ errors' = 0
                 /\ stdout' = IF args.verbose \/ args.dry_run
                              THEN stdout \cup {MsgP("Scanning directory", args.path)}
                              ELSE stdout
                 /\ stack' = <<Listing(<<>>, {args.path}, FALSE)>>
                 /\ pc' = "walk"
                 /\ UNCHANGED <<stderr, exit>>
       ELSE /\ pc' = "file_read"
            /\ UNCHANGED <<stack, stdout, stderr, exit, processed, errors>>
    /\ UNCHANGED <<args, fs, entry, content, cleaned, pre, outcome, failures,
                   writes, runs, prev, faults, tvars>>

\* The Ok arm of process_directory's match, after the lines the call printed.
\* The iteration ends: its locals are dropped.
OkArm(lines) ==
    /\ stdout' = stdout \cup lines \cup
                    (IF ~args.dry_run /\ args.verbose
                     THEN {MsgP("Processed", entry)} ELSE {})
    /\ processed' = OkCount(processed)
    /\ outcome' = (entry :> "Success") @@ outcome
    /\ pc' = "walk"
    /\ entry' = <<>>
    /\ content' = <<>>
    /\ cleaned' = <<>>
    /\ UNCHANGED <<stderr, errors>>

\* The Err arm: the error's context message names path q.
ErrArm(msg, q) ==
    /\ stderr' = stderr \cup {[MsgP(msg, entry) EXCEPT !.q = q]}
    /\ errors' = ErrCount(errors)
    /\ outcome' = (entry :> "Error") @@ outcome
    /\ pc' = "walk"
    /\ entry' = <<>>
    /\ content' = <<>>
    /\ cleaned' = <<>>
    /\ UNCHANGED <<stdout, processed>>

\* The walk yields its next entry: a directory is opened (its listing may
\* fail to open); an entry whose extension is "md" goes to
\* process_file_in_place, any other is passed over.
WalkNext ==
    /\ pc = "walk"
    /\ Live(stack) # <<>>
    /\ LET st  == Live(stack)
           top == st[Len(st)]
       IN  /\ ~top.err
           /\ \E e \in top.left :
                LET rest == SetTop(st, [top EXCEPT !.left = @ \ {e}]) IN
                /\ IF is_dir(fs, e)
                   THEN \E ok \in BOOLEAN :
                          /\ ~ok => e \in Unlistable /\ faults < MaxFaults
                          /\ faults' = IF ok THEN faults ELSE faults + 1
                          /\ stack' = Append(rest,
                                Listing(e, IF ok THEN read_dir(fs, e) ELSE {}, ~ok))
                   ELSE stack' = rest /\ faults' = faults
                /\ IF extension(e) = Some(MD)
                   THEN entry' = e /\ pc' = "read"
                   ELSE entry' = <<>> /\ pc' = "walk"
    /\ UNCHANGED <<args, fs, content, cleaned, processed, errors, stdout, stderr,
                   exit, pre, outcome, failures, writes, runs, prev, tvars>>

\* The walk yields an Err item, which filter_map(|e| e.ok()) drops.
WalkSkipErr ==
    /\ pc = "walk"
    /\ Live(stack) # <<>>
    /\ LET st  == Live(stack)
           top == st[Len(st)]
       IN  /\ top.err
           /\ stack' = SetTop(st, [top EXCEPT !.err = FALSE])
           /\ failures' = failures \cup {Failure("read_dir", top.dir)}
    /\ UNCHANGED <<args, fs, pc, entry, content, cleaned, processed, errors, stdout,
                   stderr, exit, pre, outcome, writes, runs, prev, faults, tvars>>

\* The walk is over: the summary line, Ok(()) to main, exit.
WalkEnd ==
    /\ pc = "walk"
    /\ Live(stack) = <<>>
    /\ stack' = <<>>
    /\ stdout' = stdout \cup {[Msg("Completed") EXCEPT !.a = processed, !.b = errors]}
    /\ exit' = DirResult(errors)
    /\ pc' = "exit"
    /\ UNCHANGED <<args, fs, entry, content, cleaned, processed, errors, stderr,
                   pre, outcome, failures, writes, runs, prev, faults, tvars>>

\* process_file_in_place: read, transform, and the dry-run report.
InPlaceRead ==
    /\ pc = "read"
    /\ \E ok \in {TRUE, FALSE} :
         /\ ok => is_file(fs, entry)
         /\ Injected(~ok /\ is_file(fs, entry))
         /\ IF ok
            THEN LET c  == fs[entry].data
                     cc == remove_emojis(c)
                 IN  /\ failures' = failures
                     /\ IF AfterTransform(args) = "report"
                        THEN OkArm({IF args.verbose
                                     THEN [MsgP("[DRY RUN] Would process", entry)
                                             EXCEPT !.a = ByteLen(c), !.b = ByteLen(cc)]
                                     ELSE MsgP("[DRY RUN] Would process", entry)})
                        ELSE /\ pc' = AfterTransform(args)
                             /\ content' = c
                             /\ cleaned' = cc
                             /\ UNCHANGED <<entry, stdout, stderr, processed, errors,
                                            outcome>>
            ELSE /\ failures' = failures \cup {Failure("read", entry)}
                 /\ ErrArm("Could not read file", entry)
    /\ UNCHANGED <<args, fs, stack, exit, pre, writes, runs, prev, tvars>>

\* process_file_in_place: the backup copy.  A backup file that the copy
\* creates may or may not show up in the open listing of its directory.
InPlaceBackup ==
    /\ pc = "backup"
    /\ LET backup_path == with_extension(entry, MD_BAK) IN
       \E r \in {"ok", "refused", "partial"} :
         /\ r # "refused" => is_file(fs, entry) /\ CanCreate(fs, backup_path)
         /\ Injected(r # "ok" /\ is_file(fs, entry) /\ CanCreate(fs, backup_path))
         /\ fs' = IF r = "refused" THEN fs
                  ELSE (backup_path :> File(Filled(r, fs[entry].data))) @@ fs
         /\ \E seen \in BOOLEAN :
              /\ seen => r # "refused" /\ backup_path \notin DOMAIN fs
              /\ stack' = IF seen
                          THEN SetTop(stack, [stack[Len(stack)] EXCEPT
                                                !.left = @ \cup {backup_path}])
                          ELSE stack
         /\ IF AfterCopy(r) = "write"
            THEN /\ stdout' = IF args.verbose
                              THEN stdout \cup {MsgP("Created backup", backup_path)}
                              ELSE stdout
                 /\ pc' = "write"
                 /\ UNCHANGED <<entry, content, cleaned, stderr, processed, errors,
                                outcome>>
            ELSE ErrArm("Could not create backup at", backup_path)
         /\ failures' = IF r = "ok" THEN failures
                        ELSE failures \cup {Failure("copy", entry)}
    /\ UNCHANGED <<args, exit, pre, writes, runs, prev, tvars>>

\* process_file_in_place: the original is overwritten.
InPlaceWrite ==
    /\ pc = "write"
    /\ \E r \in {"ok", "refused", "partial"} :
         /\ r # "refused" => CanCreate(fs, entry)
         /\ Injected(r # "ok" /\ CanCreate(fs, entry))
         /\ fs' = IF r = "refused" THEN fs
                  ELSE (entry :> File(Filled(r, cleaned))) @@ fs
         /\ writes' = IF r = "refused" THEN writes ELSE writes \cup {entry}
         /\ IF r = "ok"
            THEN /\ OkArm({})
                 /\ failures' = failures
            ELSE /\ ErrArm("Could not write to file", entry)
                 /\ failures' = failures \cup {Failure("write", entry)}
    /\ UNCHANGED <<args, stack, exit, pre, runs, prev, tvars>>

\* process_file: read, transform, and the dry-run preview.
FileRead ==
    /\ pc = "file_read"
    /\ \E ok \in {TRUE, FALSE} :
         /\ ok => is_file(fs, args.path)
         /\ Injected(~ok /\ is_file(fs, args.path))
         /\ IF ok
            THEN LET c  == fs[args.path].data
                     cc == remove_emojis(c)
                 IN  /\ IF args.dry_run
                        THEN /\ stdout' = stdout
                                  \cup {MsgP("[DRY RUN] Would process", args.path)}
                                  \cup (IF args.verbose
                                        THEN {[Msg("Original length") EXCEPT !.a = ByteLen(c)],
                                              [Msg("Cleaned length") EXCEPT !.a = ByteLen(cc)]}
                                        ELSE {})
                             /\ exit' = "ok"
                             /\ pc' = "exit"
                             /\ UNCHANGED <<content, cleaned>>
                        ELSE /\ pc' = "file_write"
                             /\ content' = c
                             /\ cleaned' = cc
                             /\ UNCHANGED <<stdout, exit>>
                     /\ UNCHANGED <<stderr, failures>>
            ELSE /\ stderr' = stderr \cup {MsgP("Error: Could not read file", args.path)}
                 /\ failures' = failures \cup {Failure("read", args.path)}
                 /\ exit' = "err"
                 /\ pc' = "exit"
                 /\ UNCHANGED <<content, cleaned, stdout>>
    /\ UNCHANGED <<args, fs, stack, entry, processed, errors, pre, outcome, writes,
                   runs, prev, tvars>>

\* process_file: the transformed text goes to the output path or to stdout.
FileWrite ==
    /\ pc = "file_write"
    /\ IF args.output # None
       THEN LET path == WriteTarget(args) IN
            \E r \in {"ok", "refused", "partial"} :
              /\ r # "refused" => CanCreate(fs, path)
              /\ Injected(r # "ok" /\ CanCreate(fs, path))
              /\ fs' = IF r = "refused" THEN fs
                       ELSE (path :> File(Filled(r, cleaned))) @@ fs
              /\ writes' = IF r = "refused" THEN writes ELSE writes \cup {path}
              /\ IF r = "ok"
                 THEN /\ stdout' = IF args.verbose
                                   THEN stdout \cup {MsgP("Successfully stripped emojis and saved to", path)}
                                   ELSE stdout
                      /\ exit' = "ok"
                      /\ UNCHANGED <<stderr, failures>>
                 ELSE /\ stderr' = stderr \cup {MsgP("Error: Could not write to file", path)}
                      /\ failures' = failures \cup {Failure("write", path)}
                      /\ exit' = "err"
                      /\ UNCHANGED stdout
       ELSE /\ stdout' = stdout \cup {[Msg("text") EXCEPT !.t = cleaned]}
            /\ exit' = "ok"
            /\ UNCHANGED <<fs, writes, stderr, failures, faults>>
    /\ pc' = "exit"
    /\ content' = <<>>
    /\ cleaned' = <<>>
    /\ UNCHANGED <<args, stack, entry, processed, errors, pre, outcome, runs, prev,
                   tvars>>

\* The process has exited; the same command line is run again on the
\* filesystem it left behind.
Reinvoke ==
    /\ pc = "exit"
    /\ runs < MaxRuns
    /\ args' = args
    /\ pre' = fs
    /\ pc' = "main"
    /\ stack' = <<>>
    /\ entry' = <<>>
    /\ content' = <<>>
    /\ cleaned' = <<>>
    /\ processed' = 0
    /\ errors' = 0
    /\ stdout' = {}
    /\ stderr' = {}
    /\ exit' = "running"
    /\ outcome' = <<>>
    /\ failures' = {}
    /\ writes' = {}
    /\ runs' = runs + 1
    /\ prev' = IF args.recursive /\ ~args.dry_run
               THEN {p \in DOMAIN outcome : outcome[p] = "Success"}
               ELSE {}
    /\ UNCHANGED <<fs, faults, tvars>>

(***************************************************************************)
(* The transformer on its own: every text up to MaxLen code points.        *)
(***************************************************************************)
RECURSIVE SeqsUpTo(_, _)
SeqsUpTo(S, n) ==
    IF n = 0 THEN {<<>>}
    ELSE LET shorter == SeqsUpTo(S, n - 1) IN
         shorter \cup {Append(t, c) : t \in shorter, c \in S}

Texts == SeqsUpTo(Alphabet, MaxLen)

\* No process is running.
Off ==
    /\ args = [path |-> Root, recursive |-> FALSE, output |-> None,
               verbose |-> FALSE, dry_run |-> FALSE, backup |-> FALSE]
    /\ fs = <<>>
    /\ pre = <<>>
    /\ pc = "off"
    /\ stack = <<>>
    /\ entry = <<>>
    /\ content = <<>>
    /\ cleaned = <<>>
    /\ processed = 0
    /\ errors = 0
    /\ stdout = {}
    /\ stderr = {}
    /\ exit = "running"
    /\ outcome = <<>>
    /\ failures = {}
    /\ writes = {}
    /\ runs = 0
    /\ prev = {}
    /\ faults = 0

Transform ==
    /\ tpc = "in"
    /\ once' = remove_emojis(text)
    /\ tpc' = "once"
    /\ UNCHANGED <<text, twice, fsvars>>

TransformAgain ==
    /\ tpc = "once"
    /\ twice' = remove_emojis(once)
    /\ tpc' = "twice"
    /\ UNCHANGED <<text, once, fsvars>>

(***************************************************************************)
(* The specification: either the tool is run on a tree, or the             *)
(* transformer is applied to a text.                                       *)
(***************************************************************************)
InitRun ==
    /\ \E a \in ArgsSet, ta \in SampleTexts, withD \in BOOLEAN :
         Start(a, Tree(ta, withD))
    /\ runs = 1
    /\ prev = {}
    /\ faults = 0
    /\ text = <<>>
    /\ once = <<>>
    /\ twice = <<>>
    /\ tpc = "idle"

InitTransform ==
    /\ Off
    /\ text \in Texts
    /\ once = <<>>
    /\ twice = <<>>
    /\ tpc = "in"

Init == InitRun \/ InitTransform

Next ==
    \/ Main
    \/ WalkNext
    \/ WalkSkipErr
    \/ WalkEnd
    \/ InPlaceRead
    \/ InPlaceBackup
    \/ InPlaceWrite
    \/ FileRead
    \/ FileWrite
    \/ Reinvoke
    \/ Transform
    \/ TransformAgain

Spec == Init /\ [][Next]_vars

(***************************************************************************)
(* Vocabulary of the properties.                                           *)
(***************************************************************************)

\* A process of the tool is or was running (not the transformer alone).
Running == pc # "off"

\* Recursive mode past main's directory test.
RecursiveRun == Running /\ args.recursive /\ is_dir(pre, args.path)

SingleFileRun == Running /\ ~args.recursive

\* p is root or lies below it.
Under(root, p) ==
    \/ p = root
    \/ Len(p) > Len(root) /\ SubSeq(p, 1, Len(root) + 1) = Append(root, "/")

\* The directories strictly above p, from root down.
Ancestors(root, p) == {d \in DOMAIN pre : Under(root, d) /\ d # p /\ Under(d, p)}

\* The entries the walk from args.path yields for the tree the run began
\* on: those none of whose ancestors failed to list.
Reached ==
    {p \in DOMAIN pre :
        /\ Under(args.path, p)
        /\ \A d \in Ancestors(args.path, p) : Failure("read_dir", d) \notin failures}

\* The entries of the tree with extension "md".
Markdown == {p \in DOMAIN pre : Under(args.path, p) /\ extension(p) = Some(MD)}

Succeeded == {p \in DOMAIN outcome : outcome[p] = "Success"}
Errored == {p \in DOMAIN outcome : outcome[p] = "Error"}

SummaryPrinted == \E l \in stdout : l.k = "Completed"

\* One step of process_directory's loop.
LoopStep ==
    \/ WalkNext
    \/ WalkSkipErr
    \/ WalkEnd
    \/ InPlaceRead
    \/ InPlaceBackup
    \/ InPlaceWrite

(***************************************************************************)
(* C1.  Recursive mode, backup on, dry-run off: at every point of the run, *)
(* a markdown file whose content differs from what it was when the run     *)
(* began has a backup file holding exactly that earlier content; and a     *)
(* file whose backup copy failed is unchanged and is recorded as an error. *)
(***************************************************************************)
C1_BackupBeforeOverwrite ==
    (RecursiveRun /\ args.backup /\ ~args.dry_run) =>
        \A p \in Markdown :
            LET b == with_extension(p, MD_BAK) IN
            /\ fs[p] # pre[p] => is_file(fs, b) /\ fs[b].data = pre[p].data
            /\ Failure("copy", p) \in failures =>
                   /\ fs[p] = pre[p]
                   /\ p \in Errored

\* One file overwritten behind its backup, another whose backup copy failed.
C1_Witness ==
    /\ RecursiveRun /\ args.backup /\ ~args.dry_run
    /\ \E p \in Markdown :
         /\ fs[p] # pre[p]
         /\ fs[with_extension(p, MD_BAK)] = pre[p]
    /\ \E q \in Markdown : Failure("copy", q) \in failures

(***************************************************************************)
(* C2.  Recursive mode: whatever fails on one file, the run never fails:   *)
(* while the loop runs it always has a next step, every markdown entry the *)
(* walk reaches gets its attempt, the summary is printed and               *)
(* process_directory returns Ok (exit status zero).                        *)
(***************************************************************************)
C2_ErrorsIsolated ==
    RecursiveRun =>
        /\ exit # "err"
        /\ (pc = "walk" /\ Errored # {}) => ENABLED LoopStep
        /\ pc = "exit" =>
              /\ exit = "ok"
              /\ SummaryPrinted
              /\ (Markdown \cap Reached) \subseteq DOMAIN outcome

\* A finished run in which one file failed and another was processed.
C2_Witness ==
    /\ RecursiveRun
    /\ pc = "exit"
    /\ \E p \in Errored : \E op \in {"read", "copy", "write"} : Failure(op, p) \in failures
    /\ Succeeded # {}

(***************************************************************************)
(* C3.  With --dry-run no file is written in either mode: the filesystem   *)
(* stays what it was when the invocation began (no overwrite, no backup,   *)
(* no output file), whether or not --backup or --output is given.          *)
(***************************************************************************)
C3_DryRunWritesNothing ==
    (Running /\ args.dry_run) => fs = pre /\ writes = {}

\* A finished recursive dry run with --backup that reported files.
C3_Witness ==
    /\ RecursiveRun /\ args.dry_run /\ args.backup
    /\ pc = "exit"
    /\ Cardinality(Succeeded) >= 2

(***************************************************************************)
(* C4.  --recursive on a path that is not an existing directory: the       *)
(* invocation goes from main straight to a failing exit; nothing is walked,*)
(* read, written or backed up and no summary is printed.                   *)
(***************************************************************************)
C4_NotADirectory ==
    (Running /\ args.recursive /\ ~is_dir(pre, args.path)) =>
        /\ pc \in {"main", "exit"}
        /\ fs = pre
        /\ stack = <<>>
        /\ outcome = <<>>
        /\ failures = {}
        /\ writes = {}
        /\ stdout = {}
        /\ pc = "exit" => exit = "err" /\ stderr # {}

\* --recursive given a regular file, after the exit.
C4_Witness ==
    /\ Running /\ args.recursive
    /\ is_file(pre, args.path)
    /\ pc = "exit"
    /\ exit = "err"

(***************************************************************************)
(* C5.  Single-file mode.                                                  *)
(***************************************************************************)
TextPrinted == \E l \in stdout : l.k = "text"

\* Every path except those in W is as it was when the invocation began.
UnchangedExcept(W) ==
    \A p \in DOMAIN fs : p \notin W => p \in DOMAIN pre /\ fs[p] = pre[p]

\* The side effect of a successful invocation is exactly one of: the
\* transformed text on stdout, one write of it to the output path, or
\* nothing (dry run); a failed one wrote at most to the output path.
C5_OneSideEffect ==
    /\ writes \subseteq (IF args.output # None /\ ~args.dry_run
                         THEN {args.output[1]} ELSE {})
    /\ UnchangedExcept(writes)
    /\ TextPrinted => args.output = None /\ ~args.dry_run
    /\ (pc = "exit" /\ exit = "ok") =>
          LET out == remove_emojis(pre[args.path].data) IN
          IF args.dry_run THEN ~TextPrinted /\ writes = {}
          ELSE IF args.output # None
               THEN /\ ~TextPrinted
                    /\ writes = {args.output[1]}
                    /\ fs[args.output[1]] = File(out)
               ELSE /\ writes = {}
                    /\ \E l \in stdout : l.k = "text" /\ l.t = out

\* C5 as claimed: in single-file mode the side effects are exactly one of
\* console output, one write to the output path, or nothing; the input file
\* at the given path is never modified; with no output path no file is
\* modified at all.
C5_InputNeverModified ==
    SingleFileRun =>
        /\ C5_OneSideEffect
        /\ args.path \in DOMAIN pre => fs[args.path] = pre[args.path]
        /\ args.output = None => fs = pre

\* C5 as amended: in single-file mode the side effects are exactly one of
\* console output, one write to the output path, or nothing; the input file
\* is modified only when the output path is the input path itself and
\* dry-run is off; with no output path no file is modified at all.
C5_InputModifiedOnlyAsOutput ==
    SingleFileRun =>
        /\ C5_OneSideEffect
        /\ (args.path \in DOMAIN pre /\ fs[args.path] # pre[args.path]) =>
               args.output = Some(args.path) /\ ~args.dry_run
        /\ args.output = None => fs = pre

\* --output names the input file: the input now holds its transformed text.
C5_Witness ==
    /\ SingleFileRun
    /\ pc = "exit" /\ exit = "ok"
    /\ args.output = Some(args.path)
    /\ fs[args.path] # pre[args.path]
    /\ fs[args.path].data = remove_emojis(pre[args.path].data)

(***************************************************************************)
(* C6.  The run report counts each entry handed to                         *)
(* process_file_in_place once: at every point `processed` is the number    *)
(* of entries whose attempt ended in the Ok arm and `errors` the number    *)
(* that ended in the Err arm; at the end their sum is the number of        *)
(* markdown entries the walk reached; and a step of the run changes at     *)
(* most one counter, by one, exactly when one more entry has its outcome.  *)
(***************************************************************************)
C6_Counts ==
    RecursiveRun =>
        /\ processed = Cardinality(Succeeded)
        /\ errors = Cardinality(Errored)
        /\ pc = "exit" =>
              processed + errors = Cardinality(Markdown \cap Reached)

C6_Step ==
    (RecursiveRun /\ runs' = runs) =>
        /\ processed' \in {processed, processed + 1}
        /\ errors' \in {errors, errors + 1}
        /\ (processed' + errors') - (processed + errors)
              = Cardinality(DOMAIN outcome') - Cardinality(DOMAIN outcome)
        /\ (processed' + errors') - (processed + errors) \in {0, 1}
        /\ DOMAIN outcome \subseteq DOMAIN outcome'

\* C6: the counters agree with the outcomes in every state, and every step
\* moves them as one file outcome does.
C6_RunReport == [](C6_Counts) /\ [][C6_Step]_vars

\* A finished run that processed some entries and failed on others.
C6_Witness ==
    /\ RecursiveRun
    /\ pc = "exit"
    /\ processed >= 2
    /\ errors >= 1
    /\ \E l \in stdout : l.k = "Completed" /\ l.a = processed /\ l.b = errors

(***************************************************************************)
(* C7.  remove_emojis(T) is T without its Emoji_Presentation code points:  *)
(* a subsequence of T, no longer than T in code points or in bytes, and    *)
(* T itself when T holds no such code point.                               *)
(***************************************************************************)
NotEmoji(c) == ~EmojiPresentation(c)

\* s is a subsequence of t: matched greedily from the left.
RECURSIVE IsSubsequence(_, _)
IsSubsequence(s, t) ==
    IF s = <<>> THEN TRUE
    ELSE IF t = <<>> THEN FALSE
    ELSE IF Head(s) = Head(t) THEN IsSubsequence(Tail(s), Tail(t))
    ELSE IsSubsequence(s, Tail(t))

\* C7: the result is the input filtered of its Emoji_Presentation code
\* points, hence a subsequence, no longer, and the input itself when it
\* holds none.
C7_RemovesExactlyEmoji ==
    tpc \in {"once", "twice"} =>
        /\ once = SelectSeq(text, NotEmoji)
        /\ IsSubsequence(once, text)
        /\ Len(once) <= Len(text)
        /\ ByteLen(once) <= ByteLen(text)
        /\ (\A i \in 1..Len(text) : NotEmoji(text[i])) => once = text

\* A text with two emoji around a kept character, transformed.
C7_Witness ==
    /\ tpc = "once"
    /\ Len(text) = 3
    /\ EmojiPresentation(text[1]) /\ NotEmoji(text[2]) /\ EmojiPresentation(text[3])
    /\ once = <<text[2]>>

C9_OnlyMarkdownFiles ==
    RecursiveRun =>
        /\ \A p \in DOMAIN outcome : is_file(pre, p) /\ extension(p) = Some(MD)
        /\ (pc \in {"read", "backup", "write"}) => is_file(pre, entry)
        /\ pc = "exit" =>
              DOMAIN outcome = {p \in Markdown \cap Reached : is_file(pre, p)}

(***************************************************************************)
(* C10 as claimed: no failure is silent: every I/O failure of a run is     *)
(* reported on stderr in a line naming the path it occurred on, and shows  *)
(* in the outcome: a non-zero exit in single-file mode, one increment of   *)
(* `errors` per failure in recursive mode.                                 *)
(***************************************************************************)
C10_NoSilentFailure ==
    Running =>
        /\ \A f \in failures : \E l \in stderr : l.p = f.path \/ l.q = f.path
        /\ (args.recursive /\ pc \in {"walk", "exit"}) =>
               errors >= Cardinality(failures)
        /\ (~args.recursive /\ pc = "exit" /\ failures # {}) => exit = "err"

====
